---- MODULE Spec2Model ----
(***************************************************************************)
(* Model of the recipe scraper endpoint of recipe_vault (api/index.py):    *)
(* the /api/scraper handler with its strict -> wild_mode fallback, the     *)
(* field extractor, the concurrent image validation of get_recipe_details, *)
(* the lru_cache in front of get_image_dimensions, the PNG/GIF/JPEG header *)
(* parser, and the session with its mounted Retry.                         *)
(*                                                                         *)
(* Text is a tuple of code points, so that str.strip(), the substring test *)
(* of the handler and the f-string prefix are computed, not assumed.  An   *)
(* image is its leading bytes, its trailing bytes and its total length;    *)
(* the bytes between them are zero.                                        *)
(*                                                                         *)
(* Specifications: Spec (requests, one at a time, with their worker) and   *)
(* SpecLive (the same under fairness); SpecCache (whole validate_image     *)
(* calls on a cold or full cache); SpecSniff and SpecSniffLive (one run of *)
(* the header parser on a buffer); SpecWorkers (validate_image calls of    *)
(* two threads interleaved); SpecRetry (session.get attempt by attempt).   *)
(***************************************************************************)
EXTENDS Integers, Sequences, FiniteSets, TLC

\* ------------------------------------------------------------------ bounds
MaxRequests == 2      \* requests served in one behaviour
MaxChanges  == 1      \* changes of a remote image in one behaviour
MaxFresh    == 2      \* validations of never-seen URLs in one behaviour
MaxSegs     == 2      \* segments before the frame segment of a JPEG
MaxFill     == 1      \* fill bytes before the frame marker of a JPEG
MaxCalls    == 1      \* validate_image calls of one worker thread

\* --------------------------------------------------------------- constants
MIN_IMAGE_SIZE      == 10000
MIN_IMAGE_DIMENSION == 300
maxsize             == 100
total               == 3       \* Retry(total=3)

\* ------------------------------------------------------------------- text
Max(a, b) == IF a >= b THEN a ELSE b
Min(a, b) == IF a <= b THEN a ELSE b

\* str.isspace() of one code point (the ASCII and Latin-1 white space)
IsSpace(c) == c \in {9, 10, 11, 12, 13, 28, 29, 30, 31, 32, 133, 160}

RECURSIVE LStrip(_)
LStrip(s) == IF s # <<>> /\ IsSpace(Head(s)) THEN LStrip(Tail(s)) ELSE s

RECURSIVE RStrip(_)
RStrip(s) ==
    IF s # <<>> /\ IsSpace(s[Len(s)]) THEN RStrip(SubSeq(s, 1, Len(s) - 1)) ELSE s

\* str.strip()
Strip(s) == RStrip(LStrip(s))

\* needle in hay  (Python's substring test)
Contains(hay, needle) ==
    \E i \in 0..(Len(hay) - Len(needle)) :
        SubSeq(hay, i + 1, i + Len(needle)) = needle

StartsWith(s, p) == Len(s) >= Len(p) /\ SubSeq(s, 1, Len(p)) = p

NotSupportedText == <<110, 111, 116, 32, 115, 117, 112, 112, 111, 114, 116, 101, 100>>
WildPrefix == <<70, 97, 105, 108, 101, 100, 32, 119, 105, 116, 104, 32, 119, 105,
                108, 100, 95, 109, 111, 100, 101, 58, 32>>
UrlRequiredText == <<85, 82, 76, 32, 112, 97, 114, 97, 109, 101, 116, 101, 114, 32,
                     105, 115, 32, 114, 101, 113, 117, 105, 114, 101, 100>>

\* ----------------------------------------------------------------- values
\* What a capability call, or a Python expression, yields: None, a str, a
\* list of str, or a raised exception.
None      == [t |-> "none",  v |-> <<>>]
Raised    == [t |-> "raise", v |-> <<>>]
Str(s)    == [t |-> "str",   v |-> s]
List(l)   == [t |-> "list",  v |-> l]

\* bool(value) as used by `if not url`, `if image_url`, `if not image_url`
Truthy(x) == x.t \in {"str", "list"} /\ x.v # <<>>

\* extract_recipe_field without its try/except: what the call raised gets out
extract_recipe_field_nocatch(o) ==
    IF o.t = "str" /\ Strip(o.v) = <<>> THEN None
    ELSE IF o.t = "list" /\ ~ \E i \in 1..Len(o.v) : Strip(o.v[i]) # <<>> THEN None
    ELSE o

\* extract_recipe_field testing `not value` instead of `not value.strip()`
extract_recipe_field_nostrip(o) ==
    IF o.t = "raise" THEN None
    ELSE IF o.t = "str" /\ o.v = <<>> THEN None
    ELSE IF o.t = "list" /\ ~ \E i \in 1..Len(o.v) : o.v[i] # <<>> THEN None
    ELSE o

\* extract_recipe_field: the value of the capability call, None when the call
\* raised, when it returned a blank str, or a list without a non-blank entry
extract_recipe_field(o) ==
    IF o.t = "raise" THEN None
    ELSE IF o.t = "str" /\ Strip(o.v) = <<>> THEN None
    ELSE IF o.t = "list" /\ ~ \E i \in 1..Len(o.v) : Strip(o.v[i]) # <<>> THEN None
    ELSE o

\* ----------------------------------------------------------------- images
\* BytesIO over response.content: data are the leading bytes, tail the
\* trailing bytes, size the total length; every byte between them is 0.
ByteAt(img, p) ==
    IF p < Len(img.data) THEN img.data[p + 1]
    ELSE IF p >= img.size - Len(img.tail) THEN img.tail[p - (img.size - Len(img.tail)) + 1]
    ELSE 0

\* image.read(n) at position pos: at most n bytes, fewer at the end
Read(img, pos, n) ==
    [i \in 1..Max(0, Min(n, img.size - pos)) |-> ByteAt(img, pos + i - 1)]

\* the two bytes read as a signed integer
BE16_signed(b) ==
    IF b[1] >= 128 THEN b[1] * 256 + b[2] - 65536 ELSE b[1] * 256 + b[2]
BE16(b) == b[1] * 256 + b[2]
\* the two bytes read in network order
LE16_big(b) == b[1] * 256 + b[2]
LE16(b) == b[2] * 256 + b[1]
BE32(b) == ((b[1] * 256 + b[2]) * 256 + b[3]) * 256 + b[4]

PNGMagic == <<137, 80, 78, 71, 13, 10, 26, 10>>
IHDR     == <<73, 72, 68, 82>>
GIF87a   == <<71, 73, 70, 56, 55, 97>>
GIF89a   == <<71, 73, 70, 56, 57, 97>>

\* `while ord(byte) == 0xff: byte = image.read(1)`: the position of the
\* first byte that is not 0xFF at or after pos, -1 when the buffer ends
\* first (ord(b'') raises)
RECURSIVE SkipFill(_, _)
SkipFill(img, pos) ==
    IF pos >= img.size THEN -1
    ELSE IF ByteAt(img, pos) = 255 THEN SkipFill(img, pos + 1)
    ELSE pos

\* the loop condition without the three excluded types
ScanContinues_anyInRange(ftype) ==
    ~ (192 <= ftype /\ ftype <= 207)

\* the loop condition of the marker scan
ScanContinues(ftype) ==
    ~ (192 <= ftype /\ ftype <= 207) \/ ftype \in {196, 200, 204}

\* the JPEG branch: pos is the stream position, size the pending relative
\* seek, ftype the last marker type; any exception gives (0, 0)
RECURSIVE JpegScan(_, _, _, _)
JpegScan(img, pos, size, ftype) ==
    IF ScanContinues(ftype)
    THEN LET q == SkipFill(img, Max(0, pos + size))
         IN  IF q = -1 THEN <<0, 0>>
             ELSE LET lenb == Read(img, q + 1, 2)
                  IN  IF Len(lenb) # 2 THEN <<0, 0>>
                      ELSE JpegScan(img, q + 3, BE16(lenb) - 2, ByteAt(img, q))
    ELSE LET d == Read(img, pos + 1, 4)
         IN  IF Len(d) # 4 THEN <<0, 0>>
             ELSE <<BE16(SubSeq(d, 3, 4)), BE16(SubSeq(d, 1, 2))>>

\* the header parser taking the PNG magic alone for a PNG
SniffHeader_magicOnly(img) ==
    LET header == Read(img, 0, 24)
    IN  IF Len(header) # 24 THEN <<0, 0>>
        ELSE IF SubSeq(header, 1, 8) = PNGMagic
             THEN <<BE32(SubSeq(header, 17, 20)), BE32(SubSeq(header, 21, 24))>>
        ELSE IF SubSeq(header, 1, 6) \in {GIF87a, GIF89a}
             THEN <<LE16(SubSeq(header, 7, 8)), LE16(SubSeq(header, 9, 10))>>
        ELSE IF SubSeq(header, 1, 2) = <<255, 216>>
             THEN JpegScan(img, 0, 2, 0)
        ELSE <<0, 0>>

\* the header parser of get_image_dimensions, after the size check
SniffHeader(img) ==
    LET header == Read(img, 0, 24)
    IN  IF Len(header) # 24 THEN <<0, 0>>
        ELSE IF SubSeq(header, 1, 8) = PNGMagic /\ SubSeq(header, 13, 16) = IHDR
             THEN <<BE32(SubSeq(header, 17, 20)), BE32(SubSeq(header, 21, 24))>>
        ELSE IF SubSeq(header, 1, 6) \in {GIF87a, GIF89a}
             THEN <<LE16(SubSeq(header, 7, 8)), LE16(SubSeq(header, 9, 10))>>
        ELSE IF SubSeq(header, 1, 2) = <<255, 216>>
             THEN JpegScan(img, 0, 2, 0)
        ELSE <<0, 0>>

\* get_image_dimensions without the MIN_IMAGE_SIZE test
get_image_dimensions_nosize(resp) ==
    IF ~ resp.ok THEN <<0, 0>> ELSE SniffHeader(resp.content)

\* get_image_dimensions answering a default size when the fetch raised
get_image_dimensions_failopen(resp) ==
    IF ~ resp.ok THEN <<MIN_IMAGE_DIMENSION, MIN_IMAGE_DIMENSION>>
    ELSE IF resp.content.size < MIN_IMAGE_SIZE THEN <<0, 0>>
    ELSE SniffHeader(resp.content)

\* The body of get_image_dimensions on the outcome of session.get: resp.ok is
\* FALSE when the fetch raised (timeout, transport error, retries exhausted).
get_image_dimensions(resp) ==
    IF ~ resp.ok THEN <<0, 0>>
    ELSE IF resp.content.size < MIN_IMAGE_SIZE THEN <<0, 0>>
    ELSE SniffHeader(resp.content)

\* the last line of validate_image
DimensionsValid(dims) ==
    dims[1] >= MIN_IMAGE_DIMENSION /\ dims[2] >= MIN_IMAGE_DIMENSION

\* ------------------------------------------------------------- lru_cache
\* The cache is the list of its entries, least recently used first.
CacheKeys(c) == {c[i].url : i \in 1..Len(c)}
CacheIndex(c, u) == CHOOSE i \in 1..Len(c) : c[i].url = u
CacheGet(c, u) == c[CacheIndex(c, u)].dims

Without(c, k) == [i \in 1..(Len(c) - 1) |-> IF i < k THEN c[i] ELSE c[i + 1]]

\* a cache in which a hit leaves the order alone
CacheTouch_fifo(c, u) == c

\* a hit moves the entry to the most recently used end
CacheTouch(c, u) == Append(Without(c, CacheIndex(c, u)), c[CacheIndex(c, u)])

\* a cache that keeps no (0, 0) result
CacheStore_positive(c, u, d) ==
    IF u \in CacheKeys(c) \/ d = <<0, 0>> THEN c
    ELSE IF Len(c) >= maxsize THEN Append(Tail(c), [url |-> u, dims |-> d])
    ELSE Append(c, [url |-> u, dims |-> d])

\* a store that enters the key again when it was added meanwhile
CacheStore_twice(c, u, d) ==
    IF Len(c) >= maxsize THEN Append(Tail(c), [url |-> u, dims |-> d])
    ELSE Append(c, [url |-> u, dims |-> d])

\* after the wrapped call returned: nothing when the key was added meanwhile,
\* otherwise insert, evicting the least recently used entry when full
CacheStore(c, u, d) ==
    IF u \in CacheKeys(c) THEN c
    ELSE IF Len(c) >= maxsize THEN Append(Tail(c), [url |-> u, dims |-> d])
    ELSE Append(c, [url |-> u, dims |-> d])

\* ------------------------------------------------------------ environment
\* Remote images.  MkPNG/MkGIF/MkJPEG lay the declared width and height out
\* as the format prescribes; decl is what was declared, for reference.
B16(x) == <<x \div 256, x % 256>>
B32(x) == <<x \div 16777216, (x \div 65536) % 256, (x \div 256) % 256, x % 256>>

MkPNG(w, h, n) ==
    [data |-> PNGMagic \o <<0, 0, 0, 13>> \o IHDR \o B32(w) \o B32(h),
     size |-> n, tail |-> <<>>, decl |-> <<w, h>>]
MkGIF(w, h, n) ==
    [data |-> GIF89a \o <<w % 256, w \div 256, h % 256, h \div 256>>,
     size |-> n, tail |-> <<>>, decl |-> <<w, h>>]
\* SOI, an APP0 segment of length 4, a fill byte, SOF0 with height then width
MkJPEG(w, h, n) ==
    [data |-> <<255, 216, 255, 224, 0, 4, 1, 1, 255, 255, 192, 0, 17, 8>>
              \o B16(h) \o B16(w),
     size |-> n, tail |-> <<>>, decl |-> <<w, h>>]
\* bytes that are no image: nothing is declared
MkOther(n) == [data |-> <<60, 104, 116, 109, 108, 62>>, size |-> n, tail |-> <<>>, decl |-> <<0, 0>>]
\* a JPEG whose only segment runs past the end of the buffer
MkBrokenJPEG(n) ==
    [data |-> <<255, 216, 255, 224, 255, 255>>, size |-> n, tail |-> <<>>, decl |-> <<0, 0>>]
NoImage == [data |-> <<>>, size |-> 0, tail |-> <<>>, decl |-> <<0, 0>>]

Images ==
    { MkPNG(400, 400, 50000), MkPNG(400, 400, 5000),
      MkPNG(300, 300, MIN_IMAGE_SIZE), MkPNG(400, 400, MIN_IMAGE_SIZE - 1),
      MkGIF(300, 299, 20000), MkGIF(640, 480, 20000),
      MkJPEG(400, 300, 12000), MkJPEG(299, 400, 12000),
      MkOther(20000), MkBrokenJPEG(50000) }

\* the images the pages of the request pipeline point to
PageImages ==
    { MkPNG(400, 400, 50000), MkPNG(400, 400, 5000), MkGIF(300, 299, 20000),
      MkBrokenJPEG(50000) }

\* URLs: "a" and "b" are the image URLs pages name; Filler(n) is the n-th
\* URL of other traffic, each validated once, its image never changing.
UrlA == <<97>>
UrlB == <<98>>
TrackedUrls == {UrlA, UrlB}
Filler(n) == <<102, 1000 + n>>
FillerImage == MkPNG(640, 480, 20000)

\* exceptions of scrape_me, with str(e)
StrictErrors ==
    { [kind |-> "unsupported",   \* WebsiteNotImplementedError
       msg |-> <<87, 101, 98, 115, 105, 116, 101, 32, 40, 120, 41, 32, 110, 111,
                 116, 32, 115, 117, 112, 112, 111, 114, 116, 101, 100, 46>>],
      [kind |-> "network",       \* "timed out"
       msg |-> <<116, 105, 109, 101, 100, 32, 111, 117, 116>>],
      [kind |-> "network",       \* "Address family not supported by protocol"
       msg |-> <<65, 100, 100, 114, 101, 115, 115, 32, 102, 97, 109, 105, 108,
                 121, 32, 110, 111, 116, 32, 115, 117, 112, 112, 111, 114, 116,
                 101, 100, 32, 98, 121, 32, 112, 114, 111, 116, 111, 99, 111,
                 108>>] }
WildErrors ==
    { [kind |-> "noschema",      \* "No Recipe Schema found"
       msg |-> <<78, 111, 32, 82, 101, 99, 105, 112, 101, 32, 83, 99, 104, 101,
                 109, 97, 32, 102, 111, 117, 110, 100>>],
      [kind |-> "network",
       msg |-> <<116, 105, 109, 101, 100, 32, 111, 117, 116>>] }
NoError == [kind |-> "", msg |-> <<>>]

\* what the capabilities of a source may yield
StrOutcomes  == {Raised, Str(<<32, 9>>), Str(<<84>>)}
ListOutcomes == {Raised, List(<<>>), List(<< <<32>>, <<>> >>), List(<< <<>>, <<49>> >>)}
ImageOutcomes == {Raised, Str(<<32>>), Str(UrlA), Str(UrlB)}
TextOutcomes == {Raised, Str(<<>>), Str(<<73, 32>>)}
Outcomes(field) ==
    IF field = "image" THEN ImageOutcomes
    ELSE IF field = "ingredients" THEN ListOutcomes
    ELSE IF field = "instructions" THEN TextOutcomes
    ELSE StrOutcomes
Fields == {"image", "title", "ingredients", "instructions"}

\* the `url` query parameter: missing, empty, or a page URL
UrlArgs == {None, Str(<<>>), Str(<<112>>)}

\* ------------------------------------------------------------------ state
VARIABLES
    pc,            \* position of the request handler
    url,           \* request.args.get('url')
    scraper,       \* the source bound to `scraper`: "none", "strict", "wild"
    attempts,      \* the scrape_me calls of this request, in order
    image_url,     \* get_recipe_details: image_url
    image_future,  \* get_recipe_details: the submitted validate_image task
    fields,        \* the three fields extracted so far
    capOut,        \* what each capability call yielded, and on which source
    response,      \* what the handler returned
    served,        \* requests received so far
    cache,         \* the lru_cache of get_image_dimensions
    remote,        \* the bytes behind each tracked image URL
    changes,       \* changes of remote so far
    hist,          \* per tracked URL: its last validation and what came after
    vlog,          \* the validate_image call completed last
    freshLeft,     \* never-seen URLs still to come
    fresh,         \* never-seen URLs validated so far
    sn,            \* a run of the header parser, statement by statement
    get,           \* a session.get under the mounted Retry, attempt by attempt
    workers,       \* validate_image calls running side by side
    computed       \* (url, dims) of every completed run of get_image_dimensions

vars == <<pc, url, scraper, attempts, image_url, image_future, fields, capOut,
          response, served, cache, remote, changes, hist, vlog, freshLeft, fresh,
          sn, get, workers, computed>>

otherVars == <<sn, get, workers, computed>>

reqVars == <<pc, url, scraper, attempts, image_url, image_future, fields, capOut,
             response, served>>

NoFuture   == [state |-> "none", arg |-> None, result |-> FALSE]
NoFields   == [name |-> None, ingredients |-> None, instructions |-> None]
NoCapOut   == [f \in Fields |-> [src |-> "none", out |-> None]]
NoRecipe   == [name |-> None, ingredients |-> None, instructions |-> None,
               imageUrl |-> None]
NoResponse == [status |-> 0, error |-> <<>>, recipe |-> NoRecipe]
NoHist     == [seen |-> FALSE, result |-> FALSE, changed |-> FALSE, others |-> {}]
NoResp     == [ok |-> FALSE, err |-> "", content |-> NoImage]
NoSniff    == [phase |-> "idle", img |-> NoImage, pos |-> 0, size |-> 0, ftype |-> 0,
               marker |-> -1, iter |-> 0, short |-> FALSE, underflow |-> FALSE,
               out |-> <<0, 0>>]
NoOutcome  == [kind |-> "none", status |-> 0, retryAfter |-> FALSE, err |-> ""]
NoGet      == [phase |-> "idle", url |-> <<>>, left |-> 0, sent |-> 0,
               last |-> NoOutcome, after |-> NoOutcome, resp |-> NoResp]
Workers    == {1, 2}
NoWorker   == [state |-> "idle", arg |-> None, resp |-> NoResp, dims |-> <<0, 0>>,
               result |-> FALSE, hit |-> FALSE, peer |-> FALSE, changed |-> FALSE,
               calls |-> 0]
NoWorkers  == [w \in Workers |-> NoWorker]
NoLog      == [some |-> FALSE, arg |-> None, result |-> FALSE, hit |-> FALSE,
               fetched |-> FALSE, resp |-> NoResp, pre |-> NoHist, evicted |-> {}]

RemoteOf(u) == IF u \in DOMAIN remote THEN remote[u] ELSE FillerImage

\* session.get(image_url, timeout=5): the response, or an exception
FetchErrors == {"Timeout", "ConnectionError", "RetryError"}
\* a session.get without timeout on a server that never answers
FetchOutcomes_hanging(u) == {}

FetchOutcomes(u) ==
    {[ok |-> TRUE, err |-> "", content |-> RemoteOf(u)]}
    \cup {[ok |-> FALSE, err |-> e, content |-> NoImage] : e \in FetchErrors}

\* ------------------------------------------------------- validate_image
\* validate_image, given the dimensions get_image_dimensions returns
validate_image(arg, dims) ==
    IF ~ Truthy(arg) THEN FALSE ELSE DimensionsValid(dims)

\* bookkeeping of a completed call on URL u with result r
HistAfter(h, u, r) ==
    [w \in TrackedUrls |->
        IF w = u THEN [seen |-> TRUE, result |-> r, changed |-> FALSE, others |-> {}]
        ELSE IF h[w].seen THEN [h[w] EXCEPT !.others = @ \cup {u}]
        ELSE h[w]]

Complete(arg, r, wasHit, didFetch, resp) ==
    /\ vlog' = [some |-> TRUE, arg |-> arg, result |-> r, hit |-> wasHit,
                fetched |-> didFetch, resp |-> resp,
                pre |-> IF arg.v \in TrackedUrls THEN hist[arg.v] ELSE NoHist,
                evicted |-> CacheKeys(cache) \ CacheKeys(cache')]
    /\ hist' = IF Truthy(arg) THEN HistAfter(hist, arg.v, r) ELSE hist

\* the lru_cache wrapper finds the key: no call of the wrapped function
CallHit(arg) ==
    /\ Truthy(arg)
    /\ arg.v \in CacheKeys(cache)
    /\ cache' = CacheTouch(cache, arg.v)
    /\ Complete(arg, validate_image(arg, CacheGet(cache, arg.v)), TRUE, FALSE, NoResp)

\* a wrapped function that lets the exception of the fetch through: the
\* lru_cache wrapper stores nothing for that call
CallMiss_raising(arg, resp) ==
    /\ Truthy(arg)
    /\ cache' = IF resp.ok THEN CacheStore(cache, arg.v, get_image_dimensions(resp))
                ELSE cache
    /\ Complete(arg, validate_image(arg, get_image_dimensions(resp)), FALSE, TRUE, resp)

\* the wrapped function ran on resp; its result is stored and returned
CallMiss(arg, resp) ==
    /\ Truthy(arg)
    /\ cache' = CacheStore(cache, arg.v, get_image_dimensions(resp))
    /\ Complete(arg, validate_image(arg, get_image_dimensions(resp)), FALSE, TRUE, resp)

\* `if not image_url: return False`
CallFalsy(arg) ==
    /\ ~ Truthy(arg)
    /\ cache' = cache
    /\ Complete(arg, validate_image(arg, <<0, 0>>), FALSE, FALSE, NoResp)

\* ----------------------------------------------------- the request handler
Terminal == {"Done", "Failed", "Rejected"}

\* scraper(): read the url parameter; 400 when it is missing or empty
Receive(u) ==
    /\ pc = "NotStarted"
    /\ served < MaxRequests
    /\ served' = served + 1
    /\ url' = u
    /\ IF ~ Truthy(u)
       THEN /\ pc' = "Rejected"
            /\ response' = [status |-> 400, error |-> UrlRequiredText,
                            recipe |-> NoRecipe]
       ELSE /\ pc' = "SourceConstructing_strict"
            /\ response' = NoResponse
    /\ vlog' = NoLog
    /\ UNCHANGED <<otherVars, scraper, attempts, image_url, image_future, fields, capOut,
                   cache, remote, changes, hist, freshLeft, fresh>>

\* the test written against another wording, "unsupported"
IsNotSupported_otherword(e) ==
    Contains(e.msg, <<117, 110, 115, 117, 112, 112, 111, 114, 116, 101, 100>>)

\* the handler's test on the exception of the first try block
IsNotSupported(e) == Contains(e.msg, NotSupportedText)

\* scrape_me(url) returned a source
ConstructStrictOk ==
    /\ pc = "SourceConstructing_strict"
    /\ scraper' = "strict"
    /\ attempts' = Append(attempts, [mode |-> "strict", ok |-> TRUE, err |-> NoError])
    /\ pc' = "Extracting_image"
    /\ UNCHANGED <<otherVars, url, image_url, image_future, fields, capOut, response, served,
                   cache, remote, changes, hist, vlog, freshLeft, fresh>>

\* scrape_me(url) raised e
ConstructStrictFail(e) ==
    /\ pc = "SourceConstructing_strict"
    /\ attempts' = Append(attempts, [mode |-> "strict", ok |-> FALSE, err |-> e])
    /\ IF IsNotSupported(e)
       THEN /\ pc' = "SourceConstructing_wild"
            /\ response' = response
       ELSE /\ pc' = "Failed"
            /\ response' = [status |-> 500, error |-> e.msg, recipe |-> NoRecipe]
    /\ UNCHANGED <<otherVars, url, scraper, image_url, image_future, fields, capOut, served,
                   cache, remote, changes, hist, vlog, freshLeft, fresh>>

\* scrape_me(url, wild_mode=True) returned a source
ConstructWildOk ==
    /\ pc = "SourceConstructing_wild"
    /\ scraper' = "wild"
    /\ attempts' = Append(attempts, [mode |-> "wild", ok |-> TRUE, err |-> NoError])
    /\ pc' = "Extracting_image"
    /\ UNCHANGED <<otherVars, url, image_url, image_future, fields, capOut, response, served,
                   cache, remote, changes, hist, vlog, freshLeft, fresh>>

\* the second handler answering str(e) like the first
WildFailureMessage_plain(e) == e.msg

\* f"Failed with wild_mode: {str(e)}"
WildFailureMessage(e) == WildPrefix \o e.msg

\* scrape_me(url, wild_mode=True) raised e
ConstructWildFail(e) ==
    /\ pc = "SourceConstructing_wild"
    /\ attempts' = Append(attempts, [mode |-> "wild", ok |-> FALSE, err |-> e])
    /\ pc' = "Failed"
    /\ response' = [status |-> 500, error |-> WildFailureMessage(e), recipe |-> NoRecipe]
    /\ UNCHANGED <<otherVars, url, scraper, image_url, image_future, fields, capOut, served,
                   cache, remote, changes, hist, vlog, freshLeft, fresh>>

\* ---------------------------------------------------- get_recipe_details
\* image_url = extract_recipe_field(scraper, 'image')
ExtractImage(o) ==
    /\ pc = "Extracting_image"
    /\ image_url' = extract_recipe_field(o)
    /\ capOut' = [capOut EXCEPT !["image"] = [src |-> scraper, out |-> o]]
    /\ pc' = "Extracting_submit"
    /\ UNCHANGED <<otherVars, url, scraper, attempts, image_future, fields, response, served,
                   cache, remote, changes, hist, vlog, freshLeft, fresh>>

\* image_future = executor.submit(validate_image, image_url) if image_url else None
Submit ==
    /\ pc = "Extracting_submit"
    /\ image_future' = IF Truthy(image_url)
                       THEN [state |-> "pending", arg |-> image_url, result |-> FALSE]
                       ELSE NoFuture
    /\ pc' = "Extracting_title"
    /\ UNCHANGED <<otherVars, url, scraper, attempts, image_url, fields, capOut, response,
                   served, cache, remote, changes, hist, vlog, freshLeft, fresh>>

\* "name": extract_recipe_field(scraper, 'title')
ExtractTitle(o) ==
    /\ pc = "Extracting_title"
    /\ fields' = [fields EXCEPT !.name = extract_recipe_field(o)]
    /\ capOut' = [capOut EXCEPT !["title"] = [src |-> scraper, out |-> o]]
    /\ pc' = "Extracting_ingredients"
    /\ UNCHANGED <<otherVars, url, scraper, attempts, image_url, image_future, response,
                   served, cache, remote, changes, hist, vlog, freshLeft, fresh>>

\* "ingredients": extract_recipe_field(scraper, 'ingredients')
ExtractIngredients(o) ==
    /\ pc = "Extracting_ingredients"
    /\ fields' = [fields EXCEPT !.ingredients = extract_recipe_field(o)]
    /\ capOut' = [capOut EXCEPT !["ingredients"] = [src |-> scraper, out |-> o]]
    /\ pc' = "Extracting_instructions"
    /\ UNCHANGED <<otherVars, url, scraper, attempts, image_url, image_future, response,
                   served, cache, remote, changes, hist, vlog, freshLeft, fresh>>

\* "instructions": extract_recipe_field(scraper, 'instructions')
ExtractInstructions(o) ==
    /\ pc = "Extracting_instructions"
    /\ fields' = [fields EXCEPT !.instructions = extract_recipe_field(o)]
    /\ capOut' = [capOut EXCEPT !["instructions"] = [src |-> scraper, out |-> o]]
    /\ pc' = "Extracting_join"
    /\ UNCHANGED <<otherVars, url, scraper, attempts, image_url, image_future, response,
                   served, cache, remote, changes, hist, vlog, freshLeft, fresh>>

\* a record assembled without waiting for the task
Joined_nowait(future) == TRUE

\* image_future.result() returns only when the task has completed; with no
\* task (image_future is None) there is nothing to wait for
Joined(future) == future.state \in {"none", "done"}

\* a record that keeps the image URL whatever the validation said
AssembleRecipe_unvalidated(f, iurl, future) ==
    [name |-> f.name,
     ingredients |-> f.ingredients,
     instructions |-> f.instructions,
     imageUrl |-> iurl]

\* the recipe dict, once the three fields are extracted and the task joined
AssembleRecipe(f, iurl, future) ==
    [name |-> f.name,
     ingredients |-> f.ingredients,
     instructions |-> f.instructions,
     imageUrl |-> IF future.state = "done" /\ future.result THEN iurl ELSE None]

\* "imageUrl": image_url if image_future and image_future.result() else None,
\* the executor shuts down, the handler returns jsonify(recipe)
Respond ==
    /\ pc = "Extracting_join"
    /\ Joined(image_future)
    /\ response' = [status |-> 200, error |-> <<>>,
                    recipe |-> AssembleRecipe(fields, image_url, image_future)]
    /\ pc' = "Done"
    /\ UNCHANGED <<otherVars, url, scraper, attempts, image_url, image_future, fields, capOut,
                   served, cache, remote, changes, hist, vlog, freshLeft, fresh>>

\* the worker thread enters validate_image: falsy argument, or cache lookup
TaskLookup ==
    /\ image_future.state = "pending"
    /\ \/ /\ CallFalsy(image_future.arg)
          /\ image_future' = [image_future EXCEPT !.state = "done", !.result = FALSE]
       \/ /\ CallHit(image_future.arg)
          /\ image_future' = [image_future EXCEPT !.state = "done",
                 !.result = validate_image(image_future.arg,
                                           CacheGet(cache, image_future.arg.v))]
       \/ /\ Truthy(image_future.arg)
          /\ image_future.arg.v \notin CacheKeys(cache)
          /\ image_future' = [image_future EXCEPT !.state = "fetching"]
          /\ UNCHANGED <<cache, hist, vlog>>
    /\ UNCHANGED <<otherVars, pc, url, scraper, attempts, image_url, fields, capOut, response,
                   served, remote, changes, freshLeft, fresh>>

\* the worker thread: session.get returns or raises, the header is parsed,
\* the result is stored in the cache
TaskFetch ==
    /\ image_future.state = "fetching"
    /\ \E resp \in FetchOutcomes(image_future.arg.v) :
          /\ CallMiss(image_future.arg, resp)
          /\ image_future' = [image_future EXCEPT !.state = "done",
                 !.result = validate_image(image_future.arg, get_image_dimensions(resp))]
    /\ UNCHANGED <<otherVars, pc, url, scraper, attempts, image_url, fields, capOut, response,
                   served, remote, changes, freshLeft, fresh>>

\* the handler has returned: its locals are gone, the next request may come
Finish ==
    /\ pc \in Terminal
    /\ pc' = "NotStarted"
    /\ url' = None
    /\ scraper' = "none"
    /\ attempts' = <<>>
    /\ image_url' = None
    /\ image_future' = NoFuture
    /\ fields' = NoFields
    /\ capOut' = NoCapOut
    /\ response' = NoResponse
    /\ UNCHANGED <<otherVars, served, cache, remote, changes, hist, vlog, freshLeft, fresh>>

\* ------------------------------------------------- validate_image, called
\* Whole calls of validate_image(arg) while no request is in progress: with
\* a falsy argument, with a cached URL, with an uncached URL.
ValidateAbsent(arg) ==
    /\ pc = "NotStarted"
    /\ CallFalsy(arg)
    /\ UNCHANGED <<otherVars, reqVars, remote, changes, freshLeft, fresh>>

ValidateCached(arg) ==
    /\ pc = "NotStarted"
    /\ CallHit(arg)
    /\ UNCHANGED <<otherVars, reqVars, remote, changes, freshLeft, fresh>>

ValidateUncached(arg) ==
    /\ pc = "NotStarted"
    /\ Truthy(arg)
    /\ arg.v \notin CacheKeys(cache)
    /\ \E resp \in FetchOutcomes(arg.v) : CallMiss(arg, resp)
    /\ UNCHANGED <<otherVars, reqVars, remote, changes, freshLeft, fresh>>

\* One whole call of validate_image on a URL never seen before.
ValidateFresh ==
    /\ pc = "NotStarted"
    /\ freshLeft > 0
    /\ freshLeft' = freshLeft - 1
    /\ fresh' = fresh + 1
    /\ \E resp \in FetchOutcomes(Filler(fresh + 1)) :
           CallMiss(Str(Filler(fresh + 1)), resp)
    /\ UNCHANGED <<otherVars, reqVars, remote, changes>>

\* the image behind a tracked URL changes
RemoteChange(u, img) ==
    /\ changes < MaxChanges
    /\ img # remote[u]
    /\ remote' = [remote EXCEPT ![u] = img]
    /\ changes' = changes + 1
    /\ hist' = [hist EXCEPT ![u].changed = TRUE]
    /\ UNCHANGED <<otherVars, reqVars, cache, vlog, freshLeft, fresh>>

\* --------------------------------------------------------- specifications
InitRequest ==
    /\ pc = "NotStarted"
    /\ url = None
    /\ scraper = "none"
    /\ attempts = <<>>
    /\ image_url = None
    /\ image_future = NoFuture
    /\ fields = NoFields
    /\ capOut = NoCapOut
    /\ response = NoResponse
    /\ served = 0

\* the process has just started: nothing is cached
Init ==
    /\ InitRequest
    /\ cache = <<>>
    /\ remote = [u \in TrackedUrls |->
                    IF u = UrlA THEN MkPNG(400, 400, 50000) ELSE MkPNG(400, 400, 5000)]
    /\ changes = 0
    /\ hist = [u \in TrackedUrls |-> NoHist]
    /\ vlog = NoLog
    /\ freshLeft = 0
    /\ fresh = 0
    /\ sn = NoSniff
    /\ get = NoGet
    /\ workers = NoWorkers
    /\ computed = {}

Next ==
    \/ \E u \in UrlArgs : Receive(u)
    \/ ConstructStrictOk
    \/ \E e \in StrictErrors : ConstructStrictFail(e)
    \/ ConstructWildOk
    \/ \E e \in WildErrors : ConstructWildFail(e)
    \/ \E o \in Outcomes("image") : ExtractImage(o)
    \/ Submit
    \/ \E o \in Outcomes("title") : ExtractTitle(o)
    \/ \E o \in Outcomes("ingredients") : ExtractIngredients(o)
    \/ \E o \in Outcomes("instructions") : ExtractInstructions(o)
    \/ TaskLookup
    \/ TaskFetch
    \/ Respond
    \/ Finish
    \/ \E arg \in {None, Str(<<>>)} : ValidateAbsent(arg)
    \/ \E u \in TrackedUrls, img \in PageImages : RemoteChange(u, img)

Spec == Init /\ [][Next]_vars

\* The handler thread and the worker thread of the executor both run: a
\* step that stays possible is taken.  scrape_me and session.get(timeout=5)
\* return or raise.
HandlerStep ==
    \/ ConstructStrictOk
    \/ \E e \in StrictErrors : ConstructStrictFail(e)
    \/ ConstructWildOk
    \/ \E e \in WildErrors : ConstructWildFail(e)
    \/ \E o \in Outcomes("image") : ExtractImage(o)
    \/ Submit
    \/ \E o \in Outcomes("title") : ExtractTitle(o)
    \/ \E o \in Outcomes("ingredients") : ExtractIngredients(o)
    \/ \E o \in Outcomes("instructions") : ExtractInstructions(o)
    \/ Respond
TaskStep == TaskLookup \/ TaskFetch

\* the requests alone, the remote images staying as they are
NextLive ==
    \/ \E u \in UrlArgs : Receive(u)
    \/ ConstructStrictOk
    \/ \E e \in StrictErrors : ConstructStrictFail(e)
    \/ ConstructWildOk
    \/ \E e \in WildErrors : ConstructWildFail(e)
    \/ \E o \in Outcomes("image") : ExtractImage(o)
    \/ Submit
    \/ \E o \in Outcomes("title") : ExtractTitle(o)
    \/ \E o \in Outcomes("ingredients") : ExtractIngredients(o)
    \/ \E o \in Outcomes("instructions") : ExtractInstructions(o)
    \/ TaskLookup
    \/ TaskFetch
    \/ Respond
    \/ Finish

SpecLive == Init /\ [][NextLive]_vars /\ WF_vars(HandlerStep) /\ WF_vars(TaskStep)

\* The validator on its own, from a cold or a warm cache.  The warm state is
\* the one the process is in after validate_image("a") and then maxsize - 1
\* validations of distinct other URLs: "a" is the least recently used entry
\* of a full cache.
FillerDims == get_image_dimensions([ok |-> TRUE, err |-> "", content |-> FillerImage])

\* the cache c after n stores of distinct other URLs, none of them evicting
Warm(c, n) == c \o [i \in 1..n |-> [url |-> Filler(i), dims |-> FillerDims]]

InitCache ==
    /\ InitRequest
    /\ changes = 0
    /\ freshLeft = MaxFresh
    /\ sn = NoSniff
    /\ get = NoGet
    /\ workers = NoWorkers
    /\ computed = {}
    /\ \E img \in Images :
         /\ remote = [u \in TrackedUrls |-> IF u = UrlA THEN img ELSE MkPNG(400, 400, 5000)]
         /\ \/ /\ cache = <<>>
               /\ hist = [u \in TrackedUrls |-> NoHist]
               /\ vlog = NoLog
               /\ fresh = 0
            \/ \E resp \in FetchOutcomes(UrlA) :
                 /\ resp.ok => resp.content = img
                 /\ cache = Warm(CacheStore(<<>>, UrlA, get_image_dimensions(resp)),
                                 maxsize - 1)
                 /\ hist = [u \in TrackedUrls |->
                              IF u = UrlA
                              THEN [seen |-> TRUE,
                                    result |-> validate_image(Str(UrlA),
                                                              get_image_dimensions(resp)),
                                    changed |-> FALSE,
                                    others |-> {Filler(i) : i \in 1..(maxsize - 1)}]
                              ELSE NoHist]
                 /\ vlog = [some |-> TRUE, arg |-> Str(Filler(maxsize - 1)),
                            result |-> validate_image(Str(Filler(maxsize - 1)), FillerDims),
                            hit |-> FALSE, fetched |-> TRUE,
                            resp |-> [ok |-> TRUE, err |-> "", content |-> FillerImage],
                            pre |-> NoHist, evicted |-> {}]
                 /\ fresh = maxsize - 1

NextCache ==
    \/ \E arg \in {None, Str(<<>>)} : ValidateAbsent(arg)
    \/ ValidateCached(Str(UrlA))
    \/ ValidateUncached(Str(UrlA))
    \/ ValidateFresh
    \/ \E img \in PageImages : RemoteChange(UrlA, img)

SpecCache == InitCache /\ [][NextCache]_vars

\* ------------------------------------------------ the header parser, stepwise
\* One call of get_image_dimensions on a fetched buffer, statement by
\* statement: sn.pos is the stream position at the loop test, sn.size the
\* pending relative seek, sn.ftype the last marker type and sn.marker the
\* position it was read at; sn.short records a read that came back short,
\* sn.underflow a segment length below 2.

\* the header sends the call into the JPEG branch
IsJPEG(img) ==
    LET header == Read(img, 0, 24)
    IN  /\ Len(header) = 24
        /\ ~ (SubSeq(header, 1, 8) = PNGMagic /\ SubSeq(header, 13, 16) = IHDR)
        /\ SubSeq(header, 1, 6) \notin {GIF87a, GIF89a}
        /\ SubSeq(header, 1, 2) = <<255, 216>>

\* lines 42-74: everything before the marker loop
SniffCall ==
    /\ sn.phase = "called"
    /\ sn' = IF sn.img.size >= MIN_IMAGE_SIZE /\ IsJPEG(sn.img)
             THEN [sn EXCEPT !.phase = "scan", !.pos = 0, !.size = 2, !.ftype = 0]
             ELSE [sn EXCEPT !.phase = "done",
                             !.short = sn.img.size < 24,
                             !.out = get_image_dimensions(
                                        [ok |-> TRUE, err |-> "", content |-> sn.img])]
    /\ UNCHANGED <<reqVars, cache, remote, changes, hist, vlog, freshLeft, fresh,
                   get, workers, computed>>

\* lines 77-83: one iteration of the marker loop; ord(b'') and unpack on a
\* short read raise, the handler of line 87 returns (0, 0)
ScanStep ==
    /\ sn.phase = "scan"
    /\ ScanContinues(sn.ftype)
    /\ LET q    == SkipFill(sn.img, Max(0, sn.pos + sn.size))
           lenb == Read(sn.img, q + 1, 2)
       IN  sn' = IF q = -1 \/ Len(lenb) # 2
                 THEN [sn EXCEPT !.phase = "done", !.short = TRUE, !.out = <<0, 0>>,
                                 !.iter = sn.iter + 1]
                 ELSE [sn EXCEPT !.pos = q + 3, !.size = BE16(lenb) - 2,
                                 !.ftype = ByteAt(sn.img, q), !.marker = q,
                                 !.underflow = sn.underflow \/ BE16(lenb) < 2,
                                 !.iter = sn.iter + 1]
    /\ UNCHANGED <<reqVars, cache, remote, changes, hist, vlog, freshLeft, fresh,
                   get, workers, computed>>

\* lines 84-86: after the loop, skip the precision byte, read height, width
ScanEnd ==
    /\ sn.phase = "scan"
    /\ ~ ScanContinues(sn.ftype)
    /\ LET d == Read(sn.img, sn.pos + 1, 4)
       IN  sn' = IF Len(d) # 4
                 THEN [sn EXCEPT !.phase = "done", !.short = TRUE, !.out = <<0, 0>>]
                 ELSE [sn EXCEPT !.phase = "done",
                                 !.out = <<BE16(SubSeq(d, 3, 4)), BE16(SubSeq(d, 1, 2))>>]
    /\ UNCHANGED <<reqVars, cache, remote, changes, hist, vlog, freshLeft, fresh,
                   get, workers, computed>>

\* Buffers.  A JPEG of well-formed segments: SOI, the segments of types pre
\* (each of declared length 4), fill bytes, then the frame segment of type
\* sof with height and width; marks lists the position of each type byte.
SegBytes(pre) ==
    [i \in 1..(6 * Len(pre)) |->
        LET k == ((i - 1) \div 6) + 1
            j == (i - 1) % 6
        IN  IF j = 0 THEN 255 ELSE IF j = 1 THEN pre[k] ELSE IF j = 2 THEN 0
            ELSE IF j = 3 THEN 4 ELSE 1]
MkJPEGSegs(pre, fill, sof, w, h, n) ==
    [data |-> <<255, 216>> \o SegBytes(pre) \o [i \in 1..fill |-> 255]
              \o <<255, sof, 0, 17, 8>> \o B16(h) \o B16(w),
     size |-> n, tail |-> <<>>, decl |-> <<w, h>>,
     marks |-> [k \in 1..(Len(pre) + 1) |->
                  IF k <= Len(pre) THEN [type |-> pre[k], at |-> 3 + 6 * (k - 1)]
                  ELSE [type |-> sof, at |-> 3 + 6 * Len(pre) + fill]]]
MkGIF87(w, h, n) ==
    [data |-> GIF87a \o <<w % 256, w \div 256, h % 256, h \div 256>>,
     size |-> n, tail |-> <<>>, decl |-> <<w, h>>]
\* the PNG magic without an IHDR chunk at offset 12
MkPNGNoIHDR(w, h, n) ==
    [data |-> PNGMagic \o <<0, 0, 0, 13, 73, 68, 65, 84>> \o B32(w) \o B32(h),
     size |-> n, tail |-> <<>>, decl |-> <<0, 0>>]
\* a JPEG whose first segment of declared length len leads to the last
\* bytes of the buffer, which are tl
MkJPEGTail(tl, n) ==
    [data |-> <<255, 216, 255, 224>> \o B16(n - Len(tl) - 4),
     size |-> n, tail |-> tl, decl |-> <<0, 0>>]
\* a JPEG whose first segment declares the length len, followed by more
MkJPEGLen(len, more, n) ==
    [data |-> <<255, 216, 255, 224>> \o B16(len) \o more,
     size |-> n, tail |-> <<>>, decl |-> <<0, 0>>]

SegTypes  == {224, 219, 196, 200, 204}
FrameTypes == {192, 194, 207}
RECURSIVE SeqsUpTo(_, _)
SeqsUpTo(S, n) ==
    IF n = 0 THEN {<<>>}
    ELSE SeqsUpTo(S, n - 1)
         \cup {Append(q, x) : q \in {r \in SeqsUpTo(S, n - 1) : Len(r) = n - 1}, x \in S}
Dims16 == {<<400, 300>>, <<0, 65535>>, <<299, 1>>}
Dims32 == Dims16 \cup {<<65536, 300>>, <<2147483647, 2147483647>>}
Sizes  == {0, 10, 23, 24, MIN_IMAGE_SIZE - 1, MIN_IMAGE_SIZE, 12000}

WellFormedJPEGs ==
    {MkJPEGSegs(pre, fill, sof, d[1], d[2], n) :
        pre \in SeqsUpTo(SegTypes, MaxSegs), fill \in 0..MaxFill, sof \in FrameTypes,
        d \in Dims16, n \in {MIN_IMAGE_SIZE, 12000}}
WellFormedPNGs == {MkPNG(d[1], d[2], n) : d \in Dims32, n \in Sizes}
WellFormedGIFs ==
    {MkGIF(d[1], d[2], n) : d \in Dims16, n \in Sizes}
    \cup {MkGIF87(d[1], d[2], n) : d \in Dims16, n \in Sizes}
Unrecognised ==
    {MkOther(n) : n \in Sizes}
    \cup {MkPNGNoIHDR(400, 400, n) : n \in Sizes}
    \cup {[data |-> <<71, 73, 70, 56, 56, 97, 144, 1, 144, 1>>, size |-> n,
           tail |-> <<>>, decl |-> <<0, 0>>] : n \in Sizes}
    \cup {[data |-> <<255, 217, 255, 192, 0, 17, 8, 1, 144, 1, 144>>, size |-> n,
           tail |-> <<>>, decl |-> <<0, 0>>] : n \in Sizes}
    \cup {[data |-> <<>>, size |-> n, tail |-> <<>>, decl |-> <<0, 0>>] : n \in Sizes}
\* JPEGs that end too early: no frame segment at all, the type byte as the
\* last byte, a frame segment cut within its length or its dimensions, fill
\* bytes up to the end
TruncatedJPEGs ==
    {MkBrokenJPEG(n) : n \in {MIN_IMAGE_SIZE, 12000}}
    \cup {MkJPEGTail(tl, n) :
            tl \in {<<>>, <<255>>, <<255, 255>>, <<255, 192>>, <<255, 192, 0>>,
                    <<255, 192, 0, 17>>, <<255, 192, 0, 17, 8>>,
                    <<255, 192, 0, 17, 8, 1>>, <<255, 192, 0, 17, 8, 1, 144, 1>>,
                    <<255, 192, 0, 17, 8, 1, 144, 1, 44>>,
                    <<255, 225, 0, 0, 0, 0, 0>>, <<255, 225, 0, 1, 0, 0>>},
            n \in {MIN_IMAGE_SIZE, 12000}}
\* JPEGs with a segment of declared length 0 or 1
UnderflowJPEGs ==
    {MkJPEGLen(len, more, n) :
        len \in {0, 1},
        more \in {<<2, 192, 0, 17, 8, 1, 144, 1, 44>>,
                  <<0, 2, 192, 0, 17, 8, 1, 144, 1, 44>>,
                  <<0, 2, 255, 192, 0, 17, 8, 1, 144, 1, 44>>,
                  <<3, 0, 192, 0, 17, 1, 144, 1, 44>>,
                  <<255, 255>>},
        n \in {MIN_IMAGE_SIZE}}
Buffers ==
    WellFormedJPEGs \cup WellFormedPNGs \cup WellFormedGIFs \cup Unrecognised
    \cup TruncatedJPEGs \cup UnderflowJPEGs

\* get_image_dimensions was called and session.get returned some buffer
InitSniff ==
    /\ InitRequest
    /\ cache = <<>>
    /\ remote = [u \in TrackedUrls |-> NoImage]
    /\ changes = 0
    /\ hist = [u \in TrackedUrls |-> NoHist]
    /\ vlog = NoLog
    /\ freshLeft = 0
    /\ fresh = 0
    /\ get = NoGet
    /\ workers = NoWorkers
    /\ computed = {}
    /\ \E img \in Buffers : sn = [NoSniff EXCEPT !.phase = "called", !.img = img]

NextSniff ==
    \/ SniffCall
    \/ ScanStep
    \/ ScanEnd

SpecSniff == InitSniff /\ [][NextSniff]_vars

\* the call runs: the interpreter executes the next statement
SpecSniffLive == SpecSniff /\ WF_vars(NextSniff)


\* ------------------------------------------- validate_image, side by side
\* Worker threads of concurrent requests, each inside executor-submitted
\* validate_image(arg): the lru_cache wrapper looks the key up, on a miss
\* get_image_dimensions fetches and parses outside any lock, and the wrapper
\* stores the result.  peer records that the call overlapped a call of the
\* other worker on the same URL, changed that the remote bytes changed
\* while the call ran.
InProgress(w) == workers[w].state \in {"called", "fetching", "computed"}

\* executor.submit(validate_image, image_url): the worker starts the call
WorkerCall(w, u) ==
    /\ workers[w].state \in {"idle", "done"}
    /\ workers[w].calls < MaxCalls
    /\ workers' = [v \in Workers |->
          IF v = w
          THEN [NoWorker EXCEPT !.state = "called", !.arg = Str(u),
                                !.peer = \E x \in Workers \ {w} :
                                            InProgress(x) /\ workers[x].arg = Str(u),
                                !.calls = workers[w].calls + 1]
          ELSE IF InProgress(v) /\ workers[v].arg = Str(u)
               THEN [workers[v] EXCEPT !.peer = TRUE]
               ELSE workers[v]]
    /\ UNCHANGED <<reqVars, cache, remote, changes, hist, vlog, freshLeft, fresh,
                   sn, get, computed>>

\* the wrapper's lookup: a hit returns the cached pair, a miss goes on to
\* the wrapped function
WorkerLookup(w) ==
    /\ workers[w].state = "called"
    /\ IF workers[w].arg.v \in CacheKeys(cache)
       THEN /\ cache' = CacheTouch(cache, workers[w].arg.v)
            /\ workers' = [workers EXCEPT
                  ![w].state = "done", ![w].hit = TRUE,
                  ![w].dims = CacheGet(cache, workers[w].arg.v),
                  ![w].result = validate_image(workers[w].arg,
                                               CacheGet(cache, workers[w].arg.v))]
       ELSE /\ cache' = cache
            /\ workers' = [workers EXCEPT ![w].state = "fetching"]
    /\ UNCHANGED <<reqVars, remote, changes, hist, vlog, freshLeft, fresh,
                   sn, get, computed>>

\* get_image_dimensions runs: session.get returns or raises, the header is parsed
WorkerFetch(w) ==
    /\ workers[w].state = "fetching"
    /\ \E resp \in FetchOutcomes(workers[w].arg.v) :
          /\ workers' = [workers EXCEPT ![w].state = "computed", ![w].resp = resp,
                                        ![w].dims = get_image_dimensions(resp)]
          /\ computed' = computed \cup {[url |-> workers[w].arg.v,
                                         dims |-> get_image_dimensions(resp)]}
    /\ UNCHANGED <<reqVars, cache, remote, changes, hist, vlog, freshLeft, fresh,
                   sn, get>>

\* the wrapper stores the pair and returns it; validate_image compares it
WorkerStore(w) ==
    /\ workers[w].state = "computed"
    /\ cache' = CacheStore(cache, workers[w].arg.v, workers[w].dims)
    /\ workers' = [workers EXCEPT
          ![w].state = "done",
          ![w].result = validate_image(workers[w].arg, workers[w].dims)]
    /\ UNCHANGED <<reqVars, remote, changes, hist, vlog, freshLeft, fresh,
                   sn, get, computed>>

\* the image behind a tracked URL changes while workers run
WorkerRemoteChange(u, img) ==
    /\ changes < MaxChanges
    /\ img # remote[u]
    /\ remote' = [remote EXCEPT ![u] = img]
    /\ changes' = changes + 1
    /\ workers' = [v \in Workers |->
          IF InProgress(v) /\ workers[v].arg = Str(u)
          THEN [workers[v] EXCEPT !.changed = TRUE]
          ELSE workers[v]]
    /\ UNCHANGED <<reqVars, cache, hist, vlog, freshLeft, fresh, sn, get, computed>>

\* the process has served other traffic or none: the cache is empty, or
\* full of the filler URLs
InitWorkers ==
    /\ InitRequest
    /\ cache \in {<<>>, Warm(<<>>, maxsize)}
    /\ computed = {[url |-> cache[i].url, dims |-> cache[i].dims] : i \in 1..Len(cache)}
    /\ remote = [u \in TrackedUrls |->
                    IF u = UrlA THEN MkPNG(400, 400, 50000) ELSE MkPNG(400, 400, 5000)]
    /\ changes = 0
    /\ hist = [u \in TrackedUrls |-> NoHist]
    /\ vlog = NoLog
    /\ freshLeft = 0
    /\ fresh = 0
    /\ sn = NoSniff
    /\ get = NoGet
    /\ workers = NoWorkers

NextWorkers ==
    \/ \E w \in Workers, u \in TrackedUrls : WorkerCall(w, u)
    \/ \E w \in Workers : WorkerLookup(w)
    \/ \E w \in Workers : WorkerFetch(w)
    \/ \E w \in Workers : WorkerStore(w)
    \/ \E img \in PageImages : WorkerRemoteChange(UrlA, img)

SpecWorkers == InitWorkers /\ [][NextWorkers]_vars


\* ------------------------------------------------- session.get, attempt by attempt
\* The adapters mounted on the session carry Retry(total=3,
\* backoff_factor=0.1, status_forcelist=[500, 502, 503, 504]).  urllib3
\* counts retries, not attempts: every failed attempt takes one from
\* `total`, and the request is given up when the count falls below zero.
\* By the library's defaults (respect_retry_after_header) a 413 or 429
\* answer that carries a Retry-After header is retried as well while
\* retries are left.  get.last is the outcome of the latest attempt,
\* get.after the outcome that the latest attempt followed.
status_forcelist == {500, 502, 503, 504}
RetryAfterStatus == {413, 429, 503}

Answer(s, ra) == [kind |-> "response", status |-> s, retryAfter |-> ra, err |-> ""]
Broken(e)     == [kind |-> "error", status |-> 0, retryAfter |-> FALSE, err |-> e]
AttemptOutcomes ==
    {Answer(s, FALSE) : s \in {200, 404, 429, 500, 502, 503, 504}}
    \cup {Answer(s, TRUE) : s \in {200, 429, 503}}
    \cup {Broken(e) : e \in {"Timeout", "ConnectionError"}}

\* Retry.is_retry on a received response, left being the retries left
IsRetry_anyFailure(o, left) == o.status >= 400

IsRetry(o, left) ==
    \/ o.status \in status_forcelist
    \/ left # 0 /\ o.retryAfter /\ o.status \in RetryAfterStatus

\* the body of an answer that is no image
ErrorPage == MkOther(512)

\* validate_image(u) missed the cache: get_image_dimensions calls session.get
GetStart(u) ==
    /\ pc = "NotStarted"
    /\ get.phase = "idle"
    /\ u \notin CacheKeys(cache)
    /\ get' = [NoGet EXCEPT !.phase = "sending", !.url = u, !.left = total]
    /\ UNCHANGED <<reqVars, cache, remote, changes, hist, vlog, freshLeft, fresh,
                   sn, workers, computed>>

\* one attempt: an answer arrives or the transport fails; Retry.increment
\* decides between another attempt, the answer, and the exception
Attempt(o) ==
    /\ get.phase = "sending"
    /\ LET retry == o.kind = "error" \/ IsRetry(o, get.left)
           g     == [get EXCEPT !.sent = get.sent + 1, !.after = get.last, !.last = o]
       IN  get' =
             IF ~ retry
             THEN [g EXCEPT !.phase = "returned",
                            !.resp = [ok |-> TRUE, err |-> "",
                                      content |-> IF o.status = 200 THEN RemoteOf(get.url)
                                                  ELSE ErrorPage]]
             ELSE IF get.left - 1 < 0
             THEN [g EXCEPT !.phase = "raised", !.left = get.left - 1,
                            !.resp = [ok |-> FALSE,
                                      err |-> IF o.kind = "error" THEN o.err
                                              ELSE "RetryError",
                                      content |-> NoImage]]
             ELSE [g EXCEPT !.left = get.left - 1]
    /\ UNCHANGED <<reqVars, cache, remote, changes, hist, vlog, freshLeft, fresh,
                   sn, workers, computed>>

\* session.get has returned or raised: the rest of get_image_dimensions and
\* of validate_image runs, the result is cached
GetEnd ==
    /\ get.phase \in {"returned", "raised"}
    /\ CallMiss(Str(get.url), get.resp)
    /\ get' = [get EXCEPT !.phase = IF get.phase = "raised" THEN "ended_raised"
                                    ELSE "ended_returned"]
    /\ UNCHANGED <<reqVars, remote, changes, freshLeft, fresh, sn, workers, computed>>

\* the caller is gone; another validation may start
GetReset ==
    /\ get.phase \in {"ended_raised", "ended_returned"}
    /\ get' = NoGet
    /\ UNCHANGED <<reqVars, cache, remote, changes, hist, vlog, freshLeft, fresh,
                   sn, workers, computed>>

InitRetry ==
    /\ InitRequest
    /\ cache = <<>>
    /\ computed = {}
    /\ \E img \in Images :
         remote = [u \in TrackedUrls |-> IF u = UrlA THEN img ELSE MkPNG(400, 400, 5000)]
    /\ changes = 0
    /\ hist = [u \in TrackedUrls |-> NoHist]
    /\ vlog = NoLog
    /\ freshLeft = 0
    /\ fresh = 0
    /\ sn = NoSniff
    /\ get = NoGet
    /\ workers = NoWorkers

NextRetry ==
    \/ \E u \in TrackedUrls : GetStart(u)
    \/ \E o \in AttemptOutcomes : Attempt(o)
    \/ GetEnd
    \/ GetReset

SpecRetry == InitRetry /\ [][NextRetry]_vars


\* ================================================================ properties
\* Blankness and normalisation as the specification words them, written
\* without str.strip().
BlankStr(s) == \A i \in 1..Len(s) : IsSpace(s[i])
Blank(x) ==
    \/ x.t = "str" /\ BlankStr(x.v)
    \/ x.t = "list" /\ \A i \in 1..Len(x.v) : BlankStr(x.v[i])
Absent(x) == x = None
Expected(o) == IF o.t \in {"raise", "none"} \/ Blank(o) THEN None ELSE o

RecipeKeys == {"name", "ingredients", "instructions", "imageUrl"}
InDetails == {"Extracting_title", "Extracting_ingredients",
              "Extracting_instructions", "Extracting_join", "Done"}

StrictUnsupported ==
    /\ Len(attempts) >= 1
    /\ attempts[1].mode = "strict"
    /\ ~ attempts[1].ok
    /\ attempts[1].err.kind = "unsupported"
WildSucceeded ==
    /\ Len(attempts) = 2
    /\ attempts[2].mode = "wild"
    /\ attempts[2].ok

TextFieldsAsExpected ==
    /\ response.recipe.name = Expected(capOut["title"].out)
    /\ response.recipe.ingredients = Expected(capOut["ingredients"].out)
    /\ response.recipe.instructions = Expected(capOut["instructions"].out)

\* C1: when the strict construction fails as "site not supported" the wild
\* construction is attempted, and when that one succeeds the request ends in
\* Done with a record extracted from the wild-mode source and no error.
C1_FallbackRecord ==
    StrictUnsupported =>
        /\ pc # "SourceConstructing_strict"
        /\ Len(attempts) = 1 => pc = "SourceConstructing_wild"
        /\ WildSucceeded =>
              /\ pc \in {"Extracting_image", "Extracting_submit"} \cup InDetails
              /\ scraper = "wild"
              /\ response.error = <<>>
              /\ \A f \in Fields : capOut[f].src \in {"none", "wild"}
              /\ pc = "Done" =>
                    /\ response.status = 200
                    /\ \A f \in Fields : capOut[f].src = "wild"
                    /\ TextFieldsAsExpected
                    /\ response.recipe.imageUrl \in {None, Expected(capOut["image"].out)}

C1_Witness ==
    /\ pc = "Done"
    /\ StrictUnsupported
    /\ WildSucceeded
    /\ response.recipe.name # None
    /\ response.recipe.imageUrl # None

\* C2: once a source is constructed, whatever subset of the four capabilities
\* raises, the request ends in Done with a four-key record: a field whose
\* capability raised is absent, a field whose capability returned a non-blank
\* value holds it (imageUrl: holds it or is absent), and nothing fails.
C2_FieldFailuresContained ==
    scraper # "none" =>
        /\ pc \in {"Extracting_image", "Extracting_submit"} \cup InDetails
        /\ response.error = <<>>
        /\ pc = "Done" =>
              /\ response.status = 200
              /\ DOMAIN response.recipe = RecipeKeys
              /\ capOut["title"].out = Raised => Absent(response.recipe.name)
              /\ capOut["ingredients"].out = Raised => Absent(response.recipe.ingredients)
              /\ capOut["instructions"].out = Raised => Absent(response.recipe.instructions)
              /\ capOut["image"].out = Raised => Absent(response.recipe.imageUrl)
              /\ ~ Blank(capOut["title"].out) /\ capOut["title"].out # Raised
                    => response.recipe.name = capOut["title"].out
              /\ ~ Blank(capOut["ingredients"].out) /\ capOut["ingredients"].out # Raised
                    => response.recipe.ingredients = capOut["ingredients"].out
              /\ ~ Blank(capOut["instructions"].out) /\ capOut["instructions"].out # Raised
                    => response.recipe.instructions = capOut["instructions"].out
              /\ response.recipe.imageUrl \in {None, capOut["image"].out}
              /\ response.recipe.imageUrl \notin {Raised}

C2_Witness ==
    /\ pc = "Done"
    /\ capOut["ingredients"].out = Raised
    /\ capOut["image"].out = Raised
    /\ capOut["title"].out = Str(<<84>>)
    /\ response.recipe.name = Str(<<84>>)
    /\ Absent(response.recipe.ingredients)

\* C3: a record carries imageUrl only if the image capability returned a
\* non-blank URL and validate_image returned TRUE for exactly that URL; with
\* the image field absent no task is submitted and nothing is validated or
\* fetched; with a FALSE validation imageUrl is absent.
C3_ImageUrlOnlyIfValidated ==
    /\ pc = "Done" /\ ~ Absent(response.recipe.imageUrl) =>
          /\ capOut["image"].out.t = "str"
          /\ ~ BlankStr(capOut["image"].out.v)
          /\ response.recipe.imageUrl = capOut["image"].out
          /\ image_future.state = "done"
          /\ image_future.arg = response.recipe.imageUrl
          /\ image_future.result
          /\ vlog.some /\ vlog.arg = response.recipe.imageUrl /\ vlog.result
    /\ pc \in InDetails /\ Absent(image_url) =>
          /\ image_future.state = "none"
          /\ ~ vlog.some /\ ~ vlog.fetched
    /\ pc = "Done" /\ image_future.state = "done" /\ ~ image_future.result =>
          Absent(response.recipe.imageUrl)
    /\ pc = "Done" /\ vlog.some /\ ~ vlog.result => Absent(response.recipe.imageUrl)

C3_Witness ==
    /\ pc = "Done"
    /\ response.recipe.imageUrl = Str(UrlA)
    /\ vlog.fetched
    /\ vlog.resp.content = MkPNG(400, 400, 50000)

\* C4: when the strict and the wild construction both fail the caller gets a
\* 500 response without a record whose message starts with "Failed with
\* wild_mode: " followed by the second error; no failure response of a
\* request without a wild attempt starts like that.
C4_WildFailureMessage ==
    /\ pc = "Failed" /\ Len(attempts) = 2 =>
          /\ ~ attempts[1].ok /\ ~ attempts[2].ok
          /\ response.status = 500
          /\ response.recipe = NoRecipe
          /\ StartsWith(response.error, WildPrefix)
          /\ response.error = WildPrefix \o attempts[2].err.msg
    /\ pc \in {"Failed", "Rejected"} /\ Len(attempts) < 2 =>
          /\ response.status \in {400, 500}
          /\ response.recipe = NoRecipe
          /\ response.error # <<>>
          /\ ~ StartsWith(response.error, WildPrefix)

C4_Witness ==
    /\ pc = "Failed"
    /\ StrictUnsupported
    /\ Len(attempts) = 2
    /\ ~ attempts[2].ok

\* C5: at most two constructions, strict first and wild at most once; the
\* wild one only after the strict one failed as "site not supported", not
\* after another failure nor after a source was constructed; no record on a
\* path that ends in Failed.
C5_FallbackOnlyWhenUnsupported ==
    /\ Len(attempts) <= 2
    /\ Len(attempts) >= 1 => attempts[1].mode = "strict"
    /\ Len(attempts) = 2 => attempts[2].mode = "wild" /\ ~ attempts[1].ok
    /\ pc = "SourceConstructing_wild" \/ Len(attempts) = 2 =>
          attempts[1].err.kind = "unsupported"
    /\ scraper # "none" => attempts[Len(attempts)].ok /\ pc # "Failed"
    /\ pc = "Failed" => response.recipe = NoRecipe /\ response.status # 200

\* C6: a capability value that is an empty or all-whitespace string, or a
\* sequence without a non-blank element, is extracted as absent; no field of
\* an emitted record is blank.
Extracted(f) ==
    IF f = "image" THEN image_url
    ELSE IF f = "title" THEN fields.name
    ELSE fields[f]

C6_BlankIsAbsent ==
    /\ \A f \in Fields :
          capOut[f].src # "none" /\ Blank(capOut[f].out) => Absent(Extracted(f))
    /\ pc = "Done" => \A k \in RecipeKeys : ~ Blank(response.recipe[k])

C6_Witness ==
    /\ pc = "Done"
    /\ capOut["title"].out = Str(<<32, 9>>)
    /\ capOut["ingredients"].out = List(<< <<32>>, <<>> >>)
    /\ capOut["instructions"].out = Str(<<>>)
    /\ capOut["image"].out = Str(<<32>>)
    /\ response.recipe = NoRecipe

\* C7: a validation that fetched the bytes successfully returns TRUE exactly
\* when they are at least 10,000 bytes and declare at least 300 x 300; below
\* 10,000 bytes it returns FALSE and what is cached is (0, 0), not the
\* dimensions the header declares.
C7_ValidIffSizeAndDimensions ==
    vlog.some /\ vlog.fetched /\ vlog.resp.ok =>
        /\ vlog.result = ( /\ vlog.resp.content.size >= 10000
                           /\ vlog.resp.content.decl[1] >= 300
                           /\ vlog.resp.content.decl[2] >= 300 )
        /\ vlog.resp.content.size < 10000 =>
              /\ ~ vlog.result
              /\ vlog.arg.v \in CacheKeys(cache)
              /\ CacheGet(cache, vlog.arg.v) = <<0, 0>>

C7_Witness ==
    /\ vlog.some /\ vlog.fetched /\ vlog.resp.ok
    /\ vlog.resp.content = MkPNG(400, 400, 5000)
    /\ ~ vlog.result

\* C8 as stated: a second validation of a URL whose bytes did not change
\* returns what the first returned and fetches nothing, whatever was
\* validated in between.
C8_SecondCallAlwaysHit ==
    vlog.some /\ Truthy(vlog.arg) /\ vlog.pre.seen /\ ~ vlog.pre.changed =>
        vlog.result = vlog.pre.result /\ ~ vlog.fetched

\* C8 amended: the same, provided fewer than maxsize (100) distinct other URLs
\* were validated between the two calls.
C8_SecondCallHitUnlessEvicted ==
    ( /\ vlog.some /\ Truthy(vlog.arg)
      /\ vlog.pre.seen /\ ~ vlog.pre.changed
      /\ Cardinality(vlog.pre.others) < 100 ) =>
        vlog.result = vlog.pre.result /\ ~ vlog.fetched /\ vlog.hit

C8_Witness ==
    /\ vlog.some /\ vlog.arg = Str(UrlA)
    /\ vlog.pre.seen /\ ~ vlog.pre.changed
    /\ Cardinality(vlog.pre.others) = 99
    /\ vlog.hit /\ ~ vlog.fetched
    /\ vlog.result

\* C9: the URL the task validates is image_url, fixed when the task is
\* submitted and never changed; it is the URL the record carries; a request
\* submits at most one task; the record is emitted only when the task has
\* completed.
C9_Inv ==
    /\ image_future.state # "none" =>
          /\ image_future.arg = image_url
          /\ Truthy(image_url)
          /\ pc \in InDetails
    /\ pc = "Done" =>
          /\ image_future.state \in {"none", "done"}
          /\ response.recipe.imageUrl \in {None, image_future.arg}

C9_Step ==
    /\ image_future.state # "none" /\ image_future'.state # "none" =>
          image_future'.arg = image_future.arg /\ image_url' = image_url
    /\ image_future'.state = "pending" /\ image_future.state # "pending" =>
          image_future.state = "none" /\ pc = "Extracting_submit"
    /\ pc' = "Done" /\ pc # "Done" => image_future.state \in {"none", "done"}

C9_TaskJoinedBeforeRecord == [] C9_Inv /\ [][C9_Step]_vars

C9_Witness ==
    /\ image_future.state = "fetching"
    /\ pc = "Extracting_join"
    /\ ~ Absent(fields.name)

\* C10: validate_image returns FALSE for an absent URL without fetching; a
\* fetch that raises, or a header whose parsing raises, gives FALSE; the
\* request then still ends in Done, imageUrl absent, the other three fields
\* as extracted.
C10_ValidationFailsClosed ==
    /\ vlog.some /\ ~ Truthy(vlog.arg) => ~ vlog.result /\ ~ vlog.fetched
    /\ vlog.some /\ vlog.fetched /\ ~ vlog.resp.ok => ~ vlog.result
    /\ vlog.some /\ vlog.fetched /\ vlog.resp.content = MkBrokenJPEG(50000) =>
          ~ vlog.result
    /\ image_future.state # "none" => pc \in InDetails /\ response.error = <<>>
    /\ ( /\ pc = "Done" /\ vlog.some /\ vlog.fetched
         /\ (~ vlog.resp.ok \/ vlog.resp.content = MkBrokenJPEG(50000)) ) =>
          /\ response.status = 200
          /\ Absent(response.recipe.imageUrl)
          /\ TextFieldsAsExpected

C10_Witness ==
    /\ pc = "Done"
    /\ vlog.some /\ vlog.fetched /\ ~ vlog.resp.ok
    /\ vlog.resp.err = "Timeout"
    /\ ~ Absent(image_url)
    /\ Absent(response.recipe.imageUrl)
    /\ ~ Absent(response.recipe.name)
    /\ ~ Absent(response.recipe.ingredients)

\* ------------------------------------------------------------ header parser
\* the stepwise run and the function agree on the returned pair
SniffAgrees ==
    sn.phase = "done" /\ sn.iter <= 8 =>
        sn.out = get_image_dimensions([ok |-> TRUE, err |-> "", content |-> sn.img])

SOFRange == 192..207
NotFrames == {196, 200, 204}
HasMarks(img) == "marks" \in DOMAIN img
\* the first declared marker of img whose type lies in S
FirstMark(img, S) ==
    img.marks[CHOOSE i \in 1..Len(img.marks) :
                /\ img.marks[i].type \in S
                /\ \A j \in 1..(i - 1) : img.marks[j].type \notin S]
\* height then width, one byte after the length field of the marker at q
PairAfter(img, q) ==
    <<BE16(<<ByteAt(img, q + 6), ByteAt(img, q + 7)>>),
      BE16(<<ByteAt(img, q + 4), ByteAt(img, q + 5)>>)>>
StoppedAt(S) ==
    /\ sn.phase = "done" /\ HasMarks(sn.img) =>
          /\ sn.marker = FirstMark(sn.img, S).at
          /\ sn.out = PairAfter(sn.img, sn.marker)
    /\ sn.phase = "done" /\ sn.marker >= 0 /\ ~ sn.short =>
          /\ sn.ftype \in S
          /\ sn.out = PairAfter(sn.img, sn.marker)

\* C11 as stated: on a JPEG of well-formed segments the scan stops at the
\* first marker whose type byte lies in 0xC0..0xCF and returns the (width,
\* height) read one byte after that marker's length field.
C11_StopsAtFirstInRange == StoppedAt(SOFRange)

\* C11, amended: on a JPEG of well-formed segments the scan stops at the
\* first marker whose type byte lies in 0xC0..0xCF other than 0xC4, 0xC8
\* and 0xCC, and returns (width, height) with the height read first, one
\* byte after that marker's length field.
C11_StopsAtFirstFrame == StoppedAt(SOFRange \ NotFrames)

\* a scan that passed a 0xC4 segment and stopped at the frame behind it
C11_Witness ==
    /\ sn.phase = "done"
    /\ HasMarks(sn.img)
    /\ sn.img.marks[1].type = 196
    /\ sn.marker > sn.img.marks[1].at
    /\ sn.out = <<400, 300>>

\* C12: a buffer of at least MIN_IMAGE_SIZE bytes that is a well-formed PNG,
\* GIF87a/GIF89a or JPEG (SOI, then the frame segment, also behind other
\* segments and fill bytes) yields exactly the declared (width, height).
C12_WellFormedYieldsDeclared ==
    /\ sn.phase = "done"
    /\ sn.img.size >= MIN_IMAGE_SIZE
    /\ sn.img \in WellFormedPNGs \cup WellFormedGIFs \cup WellFormedJPEGs
    => sn.out = sn.img.decl

\* a minimal JPEG, SOI directly followed by the frame segment, was parsed
C12_Witness ==
    /\ sn.phase = "done"
    /\ sn.img = MkJPEGSegs(<<>>, 0, 192, 400, 300, MIN_IMAGE_SIZE)
    /\ sn.out = <<400, 300>>

\* the signatures, byte by byte
BytesAt(img, at, bs) == \A i \in 1..Len(bs) : ByteAt(img, at + i - 1) = bs[i]
PNGSignature(img)  == BytesAt(img, 0, PNGMagic) /\ BytesAt(img, 12, IHDR)
GIFSignature(img)  == BytesAt(img, 0, GIF87a) \/ BytesAt(img, 0, GIF89a)
JPEGSignature(img) == BytesAt(img, 0, <<255, 216>>)
Recognised(img) ==
    img.size >= 24 /\ (PNGSignature(img) \/ GIFSignature(img) \/ JPEGSignature(img))

\* C13: every call returns a pair of non-negative integers, and the pair is
\* (0, 0) for every buffer shorter than 24 bytes or without the signature
\* of a PNG (magic plus IHDR), a GIF87a/GIF89a or a JPEG.
C13_AlwaysAPairZeroIfUnrecognised ==
    sn.phase = "done" =>
        /\ sn.out[1] \in Nat /\ sn.out[2] \in Nat
        /\ ~ Recognised(sn.img) => sn.out = <<0, 0>>

\* the PNG magic without the IHDR tag, in a buffer large enough
C13_Witness ==
    /\ sn.phase = "done"
    /\ sn.img.size >= MIN_IMAGE_SIZE
    /\ BytesAt(sn.img, 0, PNGMagic)
    /\ ~ BytesAt(sn.img, 12, IHDR)
    /\ sn.out = <<0, 0>>

\* C14 as stated: a JPEG scan that met a short read, or a segment whose
\* declared length is below 2, returns (0, 0).
C14_ParseErrorYieldsZero ==
    sn.phase = "done" /\ (sn.short \/ sn.underflow) => sn.out = <<0, 0>>

\* one iteration seeks back by at most 2 bytes, then reads at least 3
C20_Iteration ==
    sn.phase = "scan" /\ sn'.phase = "scan" =>
        /\ sn.size >= -2
        /\ sn'.pos >= Max(0, sn.pos + sn.size) + 3
        /\ sn'.pos >= sn.pos + 1
\* the loop was left at a frame marker, or by the handler with (0, 0)
C20_LeftLoop ==
    sn.phase = "done" /\ sn.iter > 0 =>
        \/ ~ ScanContinues(sn.ftype)
        \/ sn.short /\ sn.out = <<0, 0>>

\* C20: the marker loop terminates on every buffer: each iteration moves the
\* read position forward by at least one byte, also behind a segment of
\* declared length 0 or 1, so every call reaches its return, having found a
\* frame marker or having run off the end of the buffer with (0, 0).
C20_ScanTerminates ==
    /\ [][C20_Iteration]_vars
    /\ [](sn.pos <= sn.img.size)
    /\ []C20_LeftLoop
    /\ <>(sn.phase = "done")

\* a scan that walked on behind segments of declared length 0 until the
\* buffer ended
C20_Witness ==
    /\ sn.phase = "done"
    /\ sn.underflow
    /\ sn.iter > 3
    /\ sn.short
    /\ sn.out = <<0, 0>>

\* ------------------------------------------------------------------- cache
\* Recency as the calls themselves tell it, not as the cache lists it: the
\* filler URLs were validated once each in the order of their numbers, and
\* hist[UrlA].others are the URLs validated after the last call on UrlA.
UsedBefore(u, v) ==
    IF u = UrlA THEN v \in hist[UrlA].others
    ELSE IF v = UrlA THEN u \notin hist[UrlA].others
    ELSE u[2] < v[2]
LeastRecent(K) == CHOOSE u \in K : \A v \in K \ {u} : UsedBefore(u, v)

Entries(c) == {c[i] : i \in 1..Len(c)}
C15_Step ==
    cache' # cache =>
        LET K  == CacheKeys(cache)
            K2 == CacheKeys(cache')
        IN  /\ Len(cache') <= maxsize
            /\ {e.url : e \in Entries(cache) \ Entries(cache')} = K \ K2
            /\ IF K2 \ K # {} /\ Len(cache) = maxsize
               THEN K \ K2 = {LeastRecent(K)}
               ELSE K \subseteq K2

\* C15: the cache never holds more than maxsize (100) entries; storing a
\* new URL in a full cache evicts exactly the URL used least recently, hits
\* counting as uses, and nothing else is ever evicted; an entry keeps its
\* dimensions for as long as it is cached, whatever happens to the remote
\* bytes.
C15_BoundedLRU ==
    /\ [](Len(cache) <= maxsize)
    /\ [][C15_Step]_vars

\* UrlA, the oldest entry of a full cache, was hit, and the next new URL
\* evicted the first filler URL instead
C15_Witness ==
    /\ vlog.some
    /\ vlog.fetched
    /\ Len(cache) = maxsize
    /\ vlog.evicted = {Filler(1)}
    /\ UrlA \in CacheKeys(cache)

\* what a fetch of the present remote bytes of u would give
DimsNow(u) == get_image_dimensions([ok |-> TRUE, err |-> "", content |-> RemoteOf(u)])

\* C19: a call that fetched and got no usable image (the fetch raised, the
\* bytes were fewer than MIN_IMAGE_SIZE, or the header was not recognised)
\* leaves (0, 0) cached under its URL; and a later call on a URL whose last
\* validation was false, with fewer than maxsize other URLs validated since,
\* is false again and fetches nothing, whatever the remote bytes are now.
C19_NegativeResultCached ==
    /\ ( /\ vlog.some /\ vlog.fetched
         /\ \/ ~ vlog.resp.ok
            \/ vlog.resp.content.size < MIN_IMAGE_SIZE
            \/ ~ Recognised(vlog.resp.content) )
       => /\ vlog.arg.v \in CacheKeys(cache)
          /\ CacheGet(cache, vlog.arg.v) = <<0, 0>>
    /\ ( /\ vlog.some /\ Truthy(vlog.arg)
         /\ vlog.pre.seen /\ ~ vlog.pre.result
         /\ Cardinality(vlog.pre.others) < maxsize )
       => ~ vlog.result /\ ~ vlog.fetched /\ vlog.hit

\* UrlA was found invalid, its remote bytes then became a valid image, and
\* the next call still answered false from the cache
C19_Witness ==
    /\ vlog.some /\ vlog.arg = Str(UrlA)
    /\ vlog.pre.seen /\ ~ vlog.pre.result /\ vlog.pre.changed
    /\ DimensionsValid(DimsNow(UrlA))
    /\ CacheGet(cache, UrlA) = <<0, 0>>
    /\ vlog.hit /\ ~ vlog.fetched /\ ~ vlog.result

\* ------------------------------------------------------------- concurrency
\* every entry is a pair computed by a completed fetch of its own URL, no
\* URL is entered twice, and the cache keeps within its capacity
CacheConsistent ==
    /\ {[url |-> e.url, dims |-> e.dims] : e \in Entries(cache)} \subseteq computed
    /\ Cardinality(CacheKeys(cache)) = Len(cache)
    /\ Len(cache) <= maxsize
\* a finished call answers from a pair computed for its own URL
OwnUrl(w) ==
    workers[w].state = "done" =>
        /\ [url |-> workers[w].arg.v, dims |-> workers[w].dims] \in computed
        /\ workers[w].result = DimensionsValid(workers[w].dims)
\* two finished calls on the same URL that overlapped in time, the remote
\* bytes unchanged while they ran
Overlapped(v, w) ==
    /\ v # w
    /\ workers[v].state = "done" /\ workers[w].state = "done"
    /\ workers[v].arg = workers[w].arg
    /\ workers[v].peer /\ workers[w].peer
    /\ ~ workers[v].changed /\ ~ workers[w].changed
BothFetched(v, w) ==
    /\ ~ workers[v].hit /\ ~ workers[w].hit
    /\ workers[v].resp.ok /\ workers[w].resp.ok

TimedOutText == <<116, 105, 109, 101, 100, 32, 111, 117, 116>>
InFlight == pc \notin {"NotStarted"} \cup Terminal
ErrorResponse == response.status \in {400, 500} /\ response.recipe = NoRecipe
RecordResponse == response.status = 200 /\ response.error = <<>>
ConstructionTimedOut ==
    /\ attempts # <<>>
    /\ ~ attempts[Len(attempts)].ok
    /\ attempts[Len(attempts)].err.msg = TimedOutText
ImageFetchTimedOut == vlog.some /\ vlog.fetched /\ vlog.resp.err = "Timeout"

\* C17: every request that was received ends, in Done with a record or in
\* a failure with an error response; a source construction that timed out
\* ends the request with an error response, and an image fetch that timed
\* out ends it with a record whose imageUrl is absent.
C17_RequestEnds ==
    /\ InFlight ~> pc \in Terminal
    /\ [](pc = "Done" => RecordResponse)
    /\ [](pc \in Terminal \ {"Done"} => ErrorResponse)
    /\ [](ConstructionTimedOut => pc = "Failed" /\ ErrorResponse)
    /\ (InFlight /\ ImageFetchTimedOut) ~> (pc = "Done" /\ ImageFetchTimedOut)
    /\ [](pc = "Done" /\ ImageFetchTimedOut => Absent(response.recipe.imageUrl))

\* a request whose image fetch timed out was answered with a record
C17_Witness ==
    /\ pc = "Done"
    /\ ImageFetchTimedOut
    /\ RecordResponse
    /\ Absent(response.recipe.imageUrl)

\* ------------------------------------------------------------------ retries
Ended == get.phase \in {"ended_raised", "ended_returned"}
\* the latest attempt was a further one, made after an answer had arrived
RetriedAnswer == get.sent > 1 /\ get.after.kind = "response"

\* C18 as stated: at most 3 attempts for one validation, a further attempt
\* after an answer only when its status is 500, 502, 503 or 504, and false
\* when the attempts are used up.
C18_AtMostThreeAttempts ==
    /\ get.sent <= 3
    /\ RetriedAnswer => get.after.status \in {500, 502, 503, 504}
    /\ get.phase = "ended_raised" => vlog.some /\ ~ vlog.result

\* C18, amended: at most 4 attempts for one validation, the first and 3
\* retries; a further attempt after an answer only when its status is 500,
\* 502, 503 or 504, or is 413 or 429 with a Retry-After header; and false
\* when the retries are used up.
C18_AtMostFourAttempts ==
    /\ get.sent <= 4
    /\ RetriedAnswer =>
          \/ get.after.status \in {500, 502, 503, 504}
          \/ get.after.status \in {413, 429} /\ get.after.retryAfter
    /\ get.phase = "ended_raised" => vlog.some /\ ~ vlog.result

\* four attempts, each answered 503, and the validation returned false
C18_Witness ==
    /\ get.phase = "ended_raised"
    /\ get.sent = 4
    /\ get.last.status = 503 /\ get.after.status = 503
    /\ get.resp.err = "RetryError"
    /\ vlog.some /\ vlog.arg = Str(get.url) /\ ~ vlog.result

====
